---- MODULE Spec2Model ----
(***************************************************************************)
(* Model of sources/api/netdog/src/net_config/devices/bonding.rs:          *)
(* deserialization of a bond device declaration (NetBondV1) and its        *)
(* semantic validation (Validate for NetBondV1, MiiMonitoringConfig,       *)
(* ArpMonitoringConfig).                                                   *)
(*                                                                         *)
(* Strings whose characters matter (kind, enum tags) are sequences of      *)
(* one-character strings.  A wire document is a function from key names to *)
(* values; Option<T> is <<>> (None) or <<v>> (Some(v)).                    *)
(* Vec<IpAddr> is read by the code only through len(); it is modelled by   *)
(* its element count, a 64-bit usize written as two 32-bit limbs           *)
(* [hi, lo] = hi * 2^32 + lo.                                              *)
(***************************************************************************)
EXTENDS Integers, Sequences, FiniteSets, TLC

VARIABLES doc, pc, config, error, result, mon_result

vars == <<doc, pc, config, error, result, mon_result>>

----------------------------------------------------------------------------
(* Bounds of the explored input space *)

MaxKindLen == 4
MaxInterfaces == 2
MaxMinLinks == 3

----------------------------------------------------------------------------
(* Characters and strings *)

UpperAlphabet ==
  <<"A","B","C","D","E","F","G","H","I","J","K","L","M",
    "N","O","P","Q","R","S","T","U","V","W","X","Y","Z">>

LowerAlphabet ==
  <<"a","b","c","d","e","f","g","h","i","j","k","l","m",
    "n","o","p","q","r","s","t","u","v","w","x","y","z">>

is_uppercase(c) == \E i \in 1..26 : UpperAlphabet[i] = c

to_lowercase_char(c) ==
  IF is_uppercase(c)
    THEN LowerAlphabet[CHOOSE i \in 1..26 : UpperAlphabet[i] = c]
    ELSE c

\* str::to_lowercase
to_lowercase(s) == [i \in 1..Len(s) |-> to_lowercase_char(s[i])]

\* serde rename_all = "snake_case" (used only as a faulty renaming rule)
RECURSIVE snake_case_from(_, _)
snake_case_from(name, i) ==
  IF i > Len(name) THEN <<>>
  ELSE (IF is_uppercase(name[i])
          THEN (IF i > 1 THEN <<"_">> ELSE <<>>) \o <<to_lowercase_char(name[i])>>
          ELSE <<name[i]>>)
       \o snake_case_from(name, i + 1)

rename_all_snake_case(name) == snake_case_from(name, 1)

\* serde rename_all = "kebab-case" applied to a PascalCase variant name
RECURSIVE kebab_case_from(_, _)
kebab_case_from(name, i) ==
  IF i > Len(name) THEN <<>>
  ELSE (IF is_uppercase(name[i])
          THEN (IF i > 1 THEN <<"-">> ELSE <<>>) \o <<to_lowercase_char(name[i])>>
          ELSE <<name[i]>>)
       \o kebab_case_from(name, i + 1)

rename_all_kebab_case(name) == kebab_case_from(name, 1)

----------------------------------------------------------------------------
(* Enums *)

ActiveBackup == <<"A","c","t","i","v","e","B","a","c","k","u","p">>

BondMode == {ActiveBackup}

Active == <<"A","c","t","i","v","e">>
All == <<"A","l","l">>
Backup == <<"B","a","c","k","u","p">>
None == <<"N","o","n","e">>

ArpValidate == {Active, All, Backup, None}

\* faulty: tags matched without regard to letter case
BondMode_deserialize_ignore_case(tag) ==
  LET m == {v \in BondMode :
              to_lowercase(rename_all_kebab_case(v)) = to_lowercase(tag)}
  IN IF m = {} THEN <<>> ELSE <<CHOOSE v \in m : TRUE>>

\* derived Deserialize of a unit-variant enum: the tag must be a variant's
\* renamed name, exactly
BondMode_deserialize(tag) ==
  LET m == {v \in BondMode : rename_all_kebab_case(v) = tag}
  IN IF m = {} THEN <<>> ELSE <<CHOOSE v \in m : TRUE>>

ArpValidate_deserialize(tag) ==
  LET m == {v \in ArpValidate : rename_all_kebab_case(v) = tag}
  IN IF m = {} THEN <<>> ELSE <<CHOOSE v \in m : TRUE>>

----------------------------------------------------------------------------
(* Results *)

Ok == [ok |-> TRUE, reason |-> ""]

\* error::InvalidNetConfigSnafu { reason }
InvalidNetConfig(reason) == [ok |-> FALSE, reason |-> reason]

IfaceReason == "bonds must have 1 or more interfaces specified"
MinLinksReason == "min-links is greater than number of interfaces configured"
MiiZeroReason == "miimon-frequency-ms of 0 disables Mii Monitoring, either set a value or configure Arp Monitoring"
MiiDelayReason == "miimon-updelay-ms and miimon-downdelay-ms must be equal to or larger than miimon-frequency-ms"
ArpZeroReason == "arpmon-interval-ms of 0 disables Arp Monitoring, either set a value or configure Mii Monitoring"
ArpTargetsReason == "arpmon-targets must include between 1 and 16 targets"
AddressingReason == "addressing"

MaxTargets == 16

\* `len as u32`: the cast keeps the low 32 bits of the 64-bit count
as_u32(len) == len.lo

----------------------------------------------------------------------------
(* Monitoring configurations *)

MiiFields == {"miimon-frequency-ms", "miimon-updelay-ms", "miimon-downdelay-ms"}
ArpFields == {"arpmon-interval-ms", "arpmon-validate", "arpmon-targets"}

\* faulty: without deny_unknown_fields, keys outside the struct are ignored
MiiMonitoringConfig_deserialize_lenient(block) ==
  IF MiiFields \subseteq DOMAIN block
    THEN <<[variant |-> "MiiMon",
            frequency |-> block["miimon-frequency-ms"],
            updelay |-> block["miimon-updelay-ms"],
            downdelay |-> block["miimon-downdelay-ms"]]>>
    ELSE <<>>

\* derived Deserialize with deny_unknown_fields: every key is a field of the
\* struct and every (non-optional) field is present
MiiMonitoringConfig_deserialize(block) ==
  IF DOMAIN block \subseteq MiiFields /\ MiiFields \subseteq DOMAIN block
    THEN <<[variant |-> "MiiMon",
            frequency |-> block["miimon-frequency-ms"],
            updelay |-> block["miimon-updelay-ms"],
            downdelay |-> block["miimon-downdelay-ms"]]>>
    ELSE <<>>

ArpMonitoringConfig_deserialize(block) ==
  IF DOMAIN block \subseteq ArpFields /\ ArpFields \subseteq DOMAIN block
    THEN LET v == ArpValidate_deserialize(block["arpmon-validate"])
         IN IF v = <<>> THEN <<>>
            ELSE <<[variant |-> "ArpMon",
                    interval |-> block["arpmon-interval-ms"],
                    validate |-> v[1],
                    targets |-> block["arpmon-targets"]]>>
    ELSE <<>>

\* untagged enum: the variants are tried in declaration order and the first
\* one that deserializes is taken
BondMonitoringConfig_deserialize(block) ==
  LET mii == MiiMonitoringConfig_deserialize(block)
  IN IF mii # <<>> THEN mii ELSE ArpMonitoringConfig_deserialize(block)

\* faulty: only the up delay is compared with the frequency
MiiMonitoringConfig_validate_updelay_only(c) ==
  IF ~(c.frequency > 0) THEN InvalidNetConfig(MiiZeroReason)
  ELSE IF ~(c.frequency <= c.updelay) THEN InvalidNetConfig(MiiDelayReason)
  ELSE Ok

\* faulty: delays must be exact multiples of the frequency
MiiMonitoringConfig_validate_multiples(c) ==
  IF ~(c.frequency > 0) THEN InvalidNetConfig(MiiZeroReason)
  ELSE IF ~(c.frequency <= c.updelay /\ c.frequency <= c.downdelay
            /\ c.updelay % c.frequency = 0 /\ c.downdelay % c.frequency = 0)
    THEN InvalidNetConfig(MiiDelayReason)
  ELSE Ok

MiiMonitoringConfig_validate(c) ==
  IF ~(c.frequency > 0) THEN InvalidNetConfig(MiiZeroReason)
  ELSE IF ~(c.frequency <= c.updelay /\ c.frequency <= c.downdelay)
    THEN InvalidNetConfig(MiiDelayReason)
  ELSE Ok

\* faulty: a cross-field rule between the policy tag and the targets
ArpMonitoringConfig_validate_policy_rule(c) ==
  IF ~(c.interval > 0) THEN InvalidNetConfig(ArpZeroReason)
  ELSE LET targets_length == as_u32(c.targets)
       IN IF ~(targets_length > 0 /\ targets_length <= MaxTargets
               /\ (c.validate = All => targets_length > 1))
            THEN InvalidNetConfig(ArpTargetsReason)
            ELSE Ok

ArpMonitoringConfig_validate(c) ==
  IF ~(c.interval > 0) THEN InvalidNetConfig(ArpZeroReason)
  ELSE LET targets_length == as_u32(c.targets)
       IN IF ~(targets_length > 0 /\ targets_length <= MaxTargets)
            THEN InvalidNetConfig(ArpTargetsReason)
            ELSE Ok

----------------------------------------------------------------------------
(* NetBondV1 *)

KnownFields ==
  {"primary", "dhcp4", "dhcp6", "static4", "static6", "route", "kind",
   "mode", "min-links", "monitoring", "interfaces"}

RequiredFields == {"kind", "mode", "monitoring", "interfaces"}

Opt(d, k) == IF k \in DOMAIN d THEN <<d[k]>> ELSE <<>>

ParseOk(v) == [ok |-> TRUE, value |-> <<v>>, message |-> <<>>]
ParseError(m) == [ok |-> FALSE, value |-> <<>>, message |-> m]

\* The ways the derived deserializer can fail on a document.  Which one is
\* reported depends on the order of the keys in the document.
StructuralErrors(d) ==
  {<<"unknown field", k>> : k \in DOMAIN d \ KnownFields}
  \cup {<<"missing field", k>> : k \in RequiredFields \ DOMAIN d}
  \cup (IF "mode" \in DOMAIN d /\ BondMode_deserialize(d["mode"]) = <<>>
          THEN {<<"unknown variant", "mode">>} ELSE {})
  \cup (IF "monitoring" \in DOMAIN d
           /\ BondMonitoringConfig_deserialize(d["monitoring"]) = <<>>
          THEN {<<"data did not match any variant of untagged enum BondMonitoringConfig">>}
          ELSE {})

\* Self::deserialize: the derived (remote = "Self") deserializer with
\* deny_unknown_fields; the set of results it can produce
NetBondV1_derive(d) ==
  IF StructuralErrors(d) # {}
    THEN {ParseError(e) : e \in StructuralErrors(d)}
    ELSE {ParseOk([primary |-> Opt(d, "primary"),
                   dhcp4 |-> Opt(d, "dhcp4"),
                   dhcp6 |-> Opt(d, "dhcp6"),
                   static4 |-> Opt(d, "static4"),
                   static6 |-> Opt(d, "static6"),
                   routes |-> Opt(d, "route"),
                   kind |-> d["kind"],
                   mode |-> BondMode_deserialize(d["mode"])[1],
                   min_links |-> Opt(d, "min-links"),
                   monitoring_config |->
                     BondMonitoringConfig_deserialize(d["monitoring"])[1],
                   interfaces |-> d["interfaces"]])}

S_bond == <<"b","o","n","d">>

KindMessage(kind) == <<"kind of '">> \o kind \o <<"' does not match 'bond'">>

\* faulty: the kind is compared without lower-casing it
deserialize_case_sensitive(d) ==
  {IF r.ok /\ r.value[1].kind # S_bond
     THEN ParseError(KindMessage(r.value[1].kind))
     ELSE r : r \in NetBondV1_derive(d)}

\* impl Deserialize for NetBondV1
deserialize(d) ==
  {IF r.ok /\ to_lowercase(r.value[1].kind) # S_bond
     THEN ParseError(KindMessage(r.value[1].kind))
     ELSE r : r \in NetBondV1_derive(d)}

\* validate_addressing (net_config/devices): at least one addressing source
\* is present, and every route sits alongside static addressing of its own
\* address family.  A route is modelled by its family, 4 or 6.
validate_addressing(c) ==
  IF c.dhcp4 = <<>> /\ c.dhcp6 = <<>> /\ c.static4 = <<>> /\ c.static6 = <<>>
    THEN InvalidNetConfig(AddressingReason)
  ELSE IF c.routes # <<>>
          /\ \E i \in 1..Len(c.routes[1]) :
               \/ c.routes[1][i] = 4 /\ c.static4 = <<>>
               \/ c.routes[1][i] = 6 /\ c.static6 = <<>>
    THEN InvalidNetConfig(AddressingReason)
  ELSE Ok

monitoring_validate(mc) ==
  IF mc.variant = "MiiMon" THEN MiiMonitoringConfig_validate(mc)
  ELSE ArpMonitoringConfig_validate(mc)

\* faulty: the min-links check is missing
validate_no_min_links(c) ==
  IF ~validate_addressing(c).ok THEN validate_addressing(c)
  ELSE LET interfaces_count == Len(c.interfaces)
       IN IF ~(interfaces_count > 0) THEN InvalidNetConfig(IfaceReason)
          ELSE monitoring_validate(c.monitoring_config)

\* faulty: the monitoring block is validated before the interfaces
validate_monitoring_first(c) ==
  IF ~validate_addressing(c).ok THEN validate_addressing(c)
  ELSE IF ~monitoring_validate(c.monitoring_config).ok
    THEN monitoring_validate(c.monitoring_config)
  ELSE LET interfaces_count == Len(c.interfaces)
       IN IF ~(interfaces_count > 0) THEN InvalidNetConfig(IfaceReason)
          ELSE IF c.min_links # <<>> /\ ~(c.min_links[1] <= interfaces_count)
            THEN InvalidNetConfig(MinLinksReason)
          ELSE Ok

\* impl Validate for NetBondV1
validate(c) ==
  IF ~validate_addressing(c).ok THEN validate_addressing(c)
  ELSE LET interfaces_count == Len(c.interfaces)
       IN IF ~(interfaces_count > 0) THEN InvalidNetConfig(IfaceReason)
          ELSE IF c.min_links # <<>> /\ ~(c.min_links[1] <= interfaces_count)
            THEN InvalidNetConfig(MinLinksReason)
          ELSE monitoring_validate(c.monitoring_config)

----------------------------------------------------------------------------
(* Input documents *)

S_Bond == <<"B","o","n","d">>
S_BOND == <<"B","O","N","D">>
S_bridge == <<"b","r","i","d","g","e">>
S_active_backup == <<"a","c","t","i","v","e","-","b","a","c","k","u","p">>
S_all == <<"a","l","l">>

KindChars == {"b", "B", "o", "O", "n", "N", "d", "D"}

Kinds ==
  UNION {[1..n -> KindChars] : n \in 0..MaxKindLen} \cup {S_bridge}

Modes ==
  {S_active_backup,
   <<"A","c","t","i","v","e","-","B","a","c","k","u","p">>,
   <<"A","C","T","I","V","E","-","B","A","C","K","U","P">>,
   <<"a","c","t","i","v","e","b","a","c","k","u","p">>,
   <<"a","c","t","i","v","e","_","b","a","c","k","u","p">>,
   ActiveBackup,
   <<"b","a","l","a","n","c","e","-","r","r">>}

ValidateTags ==
  {<<"a","c","t","i","v","e">>, S_all, <<"b","a","c","k","u","p">>,
   <<"n","o","n","e">>, Active, All, None, <<"A","L","L">>,
   <<"f","i","l","t","e","r">>}

IfNames == <<"eth0", "eth1", "eth2", "eth3", "eth4">>

Interfaces == {SubSeq(IfNames, 1, n) : n \in 0..MaxInterfaces}

\* element counts of arpmon-targets: hi * 2^32 + lo
TargetCounts == [hi : {0, 1}, lo : {0, 1, 2, 16, 17}]

OptionOf(S) == {<<>>} \cup {<<v>> : v \in S}

Field(k, o) == IF o = <<>> THEN <<>> ELSE k :> o[1]

MiiBlock(f, u, d) ==
  ("miimon-frequency-ms" :> f) @@ ("miimon-updelay-ms" :> u)
  @@ ("miimon-downdelay-ms" :> d)

ArpBlock(i, v, t) ==
  ("arpmon-interval-ms" :> i) @@ ("arpmon-validate" :> v)
  @@ ("arpmon-targets" :> t)

Top(kind, mode, interfaces, monitoring) ==
  ("kind" :> kind) @@ ("mode" :> mode) @@ ("interfaces" :> interfaces)
  @@ ("monitoring" :> monitoring)

With(d, k, v) == (k :> v) @@ d

Without(d, k) == [x \in DOMAIN d \ {k} |-> d[x]]

\* scenario 1 with the monitoring keys in the `monitoring` table and DHCPv4
Scenario1Nested ==
  Top(S_bond, S_active_backup, <<"eth0", "eth1">>, MiiBlock(100, 200, 200))
  @@ ("min-links" :> 1) @@ ("dhcp4" :> TRUE)

\* scenario 1 as listed: every key at the top level, no addressing key
Scenario1Flat ==
  ("kind" :> S_bond) @@ ("mode" :> S_active_backup)
  @@ ("interfaces" :> <<"eth0", "eth1">>) @@ ("min-links" :> 1)
  @@ MiiBlock(100, 200, 200)

KindDocs == {With(Scenario1Nested, "kind", k) : k \in Kinds}

ModeDocs ==
  {Top(k, m, <<"eth0", "eth1">>, mon) @@ ("dhcp4" :> TRUE) :
     k \in {S_bond, S_Bond, S_BOND, S_bridge}, m \in Modes,
     mon \in {MiiBlock(100, 150, 250)}
             \cup {ArpBlock(500, v, [hi |-> 0, lo |-> 1]) : v \in ValidateTags}}

MonitoringBlocks ==
  {Field("miimon-frequency-ms", f) @@ Field("miimon-updelay-ms", u)
   @@ Field("miimon-downdelay-ms", d) @@ Field("arpmon-interval-ms", i)
   @@ Field("arpmon-validate", v) @@ Field("arpmon-targets", t) :
     f \in OptionOf({0, 100}), u \in OptionOf({200}), d \in OptionOf({200}),
     i \in OptionOf({500}), v \in OptionOf({S_all, All}),
     t \in OptionOf({[hi |-> 0, lo |-> 2]})}

MonitoringDocs ==
  {Top(S_bond, S_active_backup, <<"eth0">>, b) @@ ("static4" :> "addr") :
     b \in MonitoringBlocks}

ShapeDocs ==
  {Scenario1Flat,
   Scenario1Flat @@ ("dhcp4" :> TRUE),
   Scenario1Flat @@ ("monitoring" :> MiiBlock(100, 200, 200)),
   Without(Scenario1Nested, "dhcp4"),
   Without(Scenario1Nested, "interfaces"),
   Without(Scenario1Nested, "mode"),
   Scenario1Nested @@ ("mtu" :> 1500)}

Addressings ==
  {<<>>,
   "dhcp4" :> TRUE,
   "dhcp6" :> TRUE,
   "static6" :> "addr",
   ("static4" :> "addr") @@ ("route" :> <<4>>),
   ("static4" :> "addr") @@ ("route" :> <<6>>),
   ("dhcp4" :> TRUE) @@ ("route" :> <<4>>),
   ("static4" :> "addr") @@ ("static6" :> "addr") @@ ("route" :> <<4, 6>>)}

MiiBlocks ==
  {MiiBlock(f, u, d) : f \in {0, 100}, u \in {0, 50, 100, 150},
                       d \in {50, 100, 250}}

ArpBlocks ==
  {ArpBlock(i, rename_all_kebab_case(v), t) :
     i \in {0, 500}, v \in ArpValidate, t \in TargetCounts}

ValueDocs ==
  {Top(S_bond, S_active_backup, ifs, mon) @@ a @@ Field("min-links", ml)
   @@ Field("primary", p) :
     ifs \in Interfaces, mon \in MiiBlocks \cup ArpBlocks, a \in Addressings,
     ml \in OptionOf(0..MaxMinLinks), p \in OptionOf(BOOLEAN)}

----------------------------------------------------------------------------
(* State machine: a document is deserialized, the resulting config is      *)
(* validated; a monitoring config can also be validated on its own.        *)

Init ==
  /\ \/ doc \in KindDocs
     \/ doc \in ModeDocs
     \/ doc \in MonitoringDocs
     \/ doc \in ShapeDocs
     \/ doc \in ValueDocs
  /\ pc = "doc"
  /\ config = <<>>
  /\ error = <<>>
  /\ result = <<>>
  /\ mon_result = <<>>

Deserialize ==
  /\ pc = "doc"
  /\ \E r \in deserialize(doc) :
       /\ pc' = IF r.ok THEN "parsed" ELSE "rejected"
       /\ config' = r.value
       /\ error' = IF r.ok THEN <<>> ELSE <<r.message>>
  /\ UNCHANGED <<doc, result, mon_result>>

Validate ==
  /\ pc = "parsed"
  /\ result' = <<validate(config[1])>>
  /\ pc' = "validated"
  /\ UNCHANGED <<doc, config, error, mon_result>>

MiiMonValidate ==
  /\ pc \in {"parsed", "validated"}
  /\ mon_result = <<>>
  /\ config[1].monitoring_config.variant = "MiiMon"
  /\ mon_result' = <<MiiMonitoringConfig_validate(config[1].monitoring_config)>>
  /\ UNCHANGED <<doc, pc, config, error, result>>

ArpMonValidate ==
  /\ pc \in {"parsed", "validated"}
  /\ mon_result = <<>>
  /\ config[1].monitoring_config.variant = "ArpMon"
  /\ mon_result' = <<ArpMonitoringConfig_validate(config[1].monitoring_config)>>
  /\ UNCHANGED <<doc, pc, config, error, result>>

Next == Deserialize \/ Validate \/ MiiMonValidate \/ ArpMonValidate

Spec == Init /\ [][Next]_vars

----------------------------------------------------------------------------
(* Properties *)

Parsed == pc \in {"parsed", "validated"}

\* the sixteen spellings of "bond" in upper and lower case letters
BondSpellings ==
  {k \in [1..4 -> KindChars] :
     /\ k[1] \in {"b", "B"} /\ k[2] \in {"o", "O"}
     /\ k[3] \in {"n", "N"} /\ k[4] \in {"d", "D"}}

PolicyTags ==
  {<<"a","c","t","i","v","e">>, <<"a","l","l">>,
   <<"b","a","c","k","u","p">>, <<"n","o","n","e">>}

\* well-formed in everything but, possibly, the value of kind
WellFormedButKind(d) ==
  /\ DOMAIN d \subseteq KnownFields
  /\ RequiredFields \subseteq DOMAIN d
  /\ d["mode"] = S_active_backup
  /\ \/ DOMAIN d["monitoring"] = MiiFields
     \/ /\ DOMAIN d["monitoring"] = ArpFields
        /\ d["monitoring"]["arpmon-validate"] \in PolicyTags

\* C1: a document that is otherwise well-formed deserializes iff its kind,
\* lower-cased, is "bond"; any other kind gives the parse error
\* "kind of '<value>' does not match 'bond'" with the value as written, no
\* config and no validation result.
C1_KindDiscriminator ==
  (pc # "doc" /\ WellFormedButKind(doc)) =>
    IF doc["kind"] \in BondSpellings
      THEN Parsed /\ config # <<>> /\ error = <<>>
      ELSE /\ pc = "rejected"
           /\ config = <<>>
           /\ result = <<>>
           /\ error = << <<"kind of '">> \o doc["kind"]
                         \o <<"' does not match 'bond'">> >>

C1_Witness ==
  /\ pc = "rejected"
  /\ WellFormedButKind(doc)
  /\ doc["kind"] = <<"B","O","N","N">>
  /\ error = << <<"kind of '", "B", "O", "N", "N", "' does not match 'bond'">> >>

MonitoringHolds(mc) ==
  IF mc.variant = "MiiMon"
    THEN mc.frequency > 0 /\ mc.updelay >= mc.frequency
         /\ mc.downdelay >= mc.frequency
    ELSE mc.interval > 0 /\ mc.targets.hi = 0
         /\ mc.targets.lo >= 1 /\ mc.targets.lo <= 16

\* C2: validate returns Ok only if interfaces is non-empty and min_links,
\* when present, is at most the number of interfaces; min_links of 0 and of
\* exactly the number of interfaces are both allowed.
C2_InterfacesAndMinLinks ==
  pc = "validated" =>
    LET c == config[1] IN
    /\ result[1].ok =>
         /\ Len(c.interfaces) >= 1
         /\ c.min_links # <<>> => c.min_links[1] <= Len(c.interfaces)
    /\ (/\ Len(c.interfaces) >= 1
        /\ c.min_links \in {<<>>, <<0>>, <<Len(c.interfaces)>>}
        /\ validate_addressing(c).ok
        /\ MonitoringHolds(c.monitoring_config)) => result[1].ok

C2_Witness ==
  /\ pc = "validated"
  /\ result = <<Ok>>
  /\ Len(config[1].interfaces) = 2
  /\ config[1].min_links = <<2>>

MiiHolds(mc) ==
  mc.frequency > 0 /\ mc.updelay >= mc.frequency /\ mc.downdelay >= mc.frequency

\* C3: with MII monitoring, Ok from the top-level validate and Ok from
\* MiiMonitoringConfig::validate called directly each imply frequency > 0,
\* updelay >= frequency and downdelay >= frequency.
C3_MiiInvariant ==
  (Parsed /\ config[1].monitoring_config.variant = "MiiMon") =>
    /\ (pc = "validated" /\ result[1].ok) => MiiHolds(config[1].monitoring_config)
    /\ (mon_result # <<>> /\ mon_result[1].ok) =>
         MiiHolds(config[1].monitoring_config)

C3_Witness ==
  /\ pc = "validated"
  /\ result = <<Ok>>
  /\ mon_result = <<Ok>>
  /\ config[1].monitoring_config.variant = "MiiMon"
  /\ config[1].monitoring_config.updelay = config[1].monitoring_config.frequency

\* C4: with ARP monitoring, Ok from validate implies interval > 0 and a
\* true number of targets between 1 and 16, whatever the number of targets.
C4_ArpInvariant ==
  (pc = "validated" /\ config[1].monitoring_config.variant = "ArpMon"
   /\ result[1].ok) =>
    /\ config[1].monitoring_config.interval > 0
    /\ config[1].monitoring_config.targets.hi = 0
    /\ config[1].monitoring_config.targets.lo >= 1
    /\ config[1].monitoring_config.targets.lo <= 16

MixedFamilies(d) ==
  /\ "monitoring" \in DOMAIN d
  /\ DOMAIN d["monitoring"] \cap MiiFields # {}
  /\ DOMAIN d["monitoring"] \cap ArpFields # {}

\* C5: a monitoring block with at least one miimon-* key and at least one
\* arpmon-* key matches neither variant of the untagged union, and the
\* document is rejected at deserialization.
C5_FamiliesExclusive ==
  (pc # "doc" /\ MixedFamilies(doc)) =>
    /\ pc = "rejected"
    /\ config = <<>>
    /\ MiiMonitoringConfig_deserialize(doc["monitoring"]) = <<>>
    /\ ArpMonitoringConfig_deserialize(doc["monitoring"]) = <<>>

C5_Witness ==
  /\ pc = "rejected"
  /\ MixedFamilies(doc)
  /\ MiiFields \subseteq DOMAIN doc["monitoring"]
  /\ DOMAIN doc["monitoring"] \cap ArpFields = {"arpmon-interval-ms"}
  /\ doc["kind"] = S_bond

\* C6 as stated: the scenario-1 document with every key at the top level
\* and no addressing key deserializes to a config with MII monitoring, and
\* validate returns Ok.
C6_Scenario1Flat ==
  (doc = Scenario1Flat /\ pc # "doc") =>
    /\ Parsed
    /\ config[1].monitoring_config.variant = "MiiMon"
    /\ pc = "validated" => result = <<Ok>>

\* C6 amended: the scenario-1 document with the three miimon-* keys inside
\* the `monitoring` table and one addressing source (dhcp4) deserializes to
\* a config with MII monitoring, and validate returns Ok.
C6_Scenario1Nested ==
  (doc = Scenario1Nested /\ pc # "doc") =>
    /\ Parsed
    /\ config[1].monitoring_config.variant = "MiiMon"
    /\ pc = "validated" => result = <<Ok>>

C6_Witness ==
  /\ doc = Scenario1Nested
  /\ pc = "validated"
  /\ result = <<Ok>>
  /\ config[1].monitoring_config.frequency = 100

\* the reasons of the checks a config fails, in the order of the checks
FailingReasons(c) ==
  LET mc == c.monitoring_config IN
  (IF validate_addressing(c).ok THEN <<>> ELSE <<validate_addressing(c).reason>>)
  \o (IF Len(c.interfaces) = 0 THEN <<IfaceReason>> ELSE <<>>)
  \o (IF c.min_links # <<>> /\ c.min_links[1] > Len(c.interfaces)
        THEN <<MinLinksReason>> ELSE <<>>)
  \o (IF mc.variant = "MiiMon"
        THEN (IF mc.frequency = 0 THEN <<MiiZeroReason>> ELSE <<>>)
             \o (IF mc.updelay < mc.frequency \/ mc.downdelay < mc.frequency
                   THEN <<MiiDelayReason>> ELSE <<>>)
        ELSE (IF mc.interval = 0 THEN <<ArpZeroReason>> ELSE <<>>)
             \o (IF mc.targets.hi # 0 \/ mc.targets.lo < 1 \/ mc.targets.lo > 16
                   THEN <<ArpTargetsReason>> ELSE <<>>))

\* C7: the error validate returns is the reason of the first failing check
\* in the order addressing, interfaces non-empty, min-links, monitoring
\* (zero period before delays / target count); one reason per call.
C7_FailFastOrder ==
  pc = "validated" =>
    LET c == config[1] IN
    /\ ~result[1].ok =>
         /\ FailingReasons(c) # <<>>
         /\ result[1].reason = Head(FailingReasons(c))
    /\ (Len(c.interfaces) = 0 /\ validate_addressing(c).ok) =>
         result[1] = InvalidNetConfig(IfaceReason)
    /\ (/\ validate_addressing(c).ok /\ Len(c.interfaces) > 0
        /\ (c.min_links = <<>> \/ c.min_links[1] <= Len(c.interfaces))
        /\ c.monitoring_config.variant = "ArpMon"
        /\ c.monitoring_config.interval = 0) =>
         result[1] = InvalidNetConfig(ArpZeroReason)

C7_Witness ==
  /\ pc = "validated"
  /\ Len(FailingReasons(config[1])) >= 3
  /\ Len(config[1].interfaces) = 0
  /\ config[1].min_links = <<1>>
  /\ validate_addressing(config[1]).ok
  /\ ~MonitoringHolds(config[1].monitoring_config)
  /\ result = <<InvalidNetConfig(IfaceReason)>>

\* C8: mode is accepted only as exactly "active-backup" and arpmon-validate
\* only as exactly "active", "all", "backup" or "none", whereas kind is
\* accepted in any letter case of "bond".
C8_TagsCaseSensitive ==
  pc # "doc" =>
    /\ ("mode" \in DOMAIN doc /\ doc["mode"] # S_active_backup) =>
         pc = "rejected"
    /\ (/\ "monitoring" \in DOMAIN doc
        /\ "arpmon-validate" \in DOMAIN doc["monitoring"]
        /\ doc["monitoring"]["arpmon-validate"] \notin PolicyTags) =>
         pc = "rejected"
    /\ (WellFormedButKind(doc) /\ doc["kind"] \in BondSpellings) => Parsed

C8_Witness ==
  /\ pc = "rejected"
  /\ doc["kind"] = S_BOND
  /\ doc["mode"] = <<"A","c","t","i","v","e","-","B","a","c","k","u","p">>
  /\ DOMAIN doc["monitoring"] = MiiFields
  /\ error = << <<"unknown variant", "mode">> >>

\* the config with `primary` and the ARP policy tag replaced
Vary(c, p, v) ==
  [c EXCEPT !.primary = p,
            !.monitoring_config =
               IF @.variant = "ArpMon" THEN [@ EXCEPT !.validate = v] ELSE @]

\* C9: the outcome of validate is the same for every value of `primary`
\* and every ARP policy tag, all other fields being equal.
C9_PrimaryAndPolicyIgnored ==
  pc = "validated" =>
    \A p \in OptionOf(BOOLEAN), v \in ArpValidate :
      validate(Vary(config[1], p, v)) = result[1]

C9_Witness ==
  /\ pc = "validated"
  /\ config[1].monitoring_config.variant = "ArpMon"
  /\ config[1].monitoring_config.validate = All
  /\ config[1].monitoring_config.targets = [hi |-> 0, lo |-> 1]
  /\ config[1].primary = <<TRUE>>
  /\ result = <<Ok>>

\* C10: a config that passes addressing validation, has at least one
\* interface, has min_links absent or at most the number of interfaces, and
\* whose monitoring block satisfies its invariant is accepted by validate.
C10_Complete ==
  pc = "validated" =>
    LET c == config[1] IN
    (/\ validate_addressing(c).ok
     /\ Len(c.interfaces) >= 1
     /\ (c.min_links = <<>> \/ c.min_links[1] <= Len(c.interfaces))
     /\ MonitoringHolds(c.monitoring_config)) => result = <<Ok>>

C10_Witness ==
  /\ pc = "validated"
  /\ result = <<Ok>>
  /\ config[1].monitoring_config.variant = "MiiMon"
  /\ config[1].monitoring_config.frequency = 100
  /\ config[1].monitoring_config.updelay = 150
  /\ config[1].monitoring_config.downdelay = 250

====
